---- MODULE Spec2Model ----
(***************************************************************************)
(* The combat turn machine of mtg/game_state.py (class GameState).         *)
(*                                                                         *)
(* The state is one GameState instance: the two life totals, the active    *)
(* player, the turn phase and the battleground (the creatures in play,     *)
(* keyed by uid).  Every public phase operation (declare_attackers,        *)
(* declare_blockers, resolve_combat, end_turn) is one action; the call     *)
(* just made, its argument and its result are recorded in op / arg_* /     *)
(* err so that properties can speak about "a call that failed with ...".   *)
(*                                                                         *)
(* battleground_state.py, creature_state.py and combat_assignment.py are   *)
(* not part of the sources at hand: the operators that stand for them      *)
(* (lookup, get_creatures, get_combat_assignment, is_reorder_of,           *)
(* remove_creature and the creature mutators) follow the data model and   *)
(* the interface contract of the specification, sections 3 and 6.          *)
(***************************************************************************)
EXTENDS Integers, Sequences, FiniteSets, TLC

VARIABLES
    life1,          \* GameState._life1: life of player 0
    life2,          \* GameState._life2: life of player 1
    active_player,  \* GameState.active_player: 0 or 1
    phase,          \* GameState.phase: a TurnPhase
    battleground,   \* GameState.battleground: uid in play -> creature state
    op,             \* the operation called last
    err,            \* its result: "ok" or the error it raised
    arg_attackers,  \* last declare_attackers argument (a set of uids)
    arg_blocking,   \* last declare_blockers argument (blocker uid -> blocked uid)
    arg_given,      \* last resolve_combat call: was an assignment supplied
    arg_combat,     \* last resolve_combat call: the assignment supplied or used
    calls,          \* number of calls made so far that did not raise before acting
    held            \* the other GameState instance once copy() was called

vars == <<life1, life2, active_player, phase, battleground,
          op, err, arg_attackers, arg_blocking, arg_given, arg_combat, calls,
          held>>

game == <<life1, life2, active_player, phase, battleground>>

---------------------------------------------------------------------------
(* Bounds of the model *)

\* calls along one run when the caller may pass any argument
MaxCalls == 3
\* calls along one run when the caller passes only arguments that are accepted
MaxLegalCalls == 6
\* calls along one run on a parsed game
MaxParsedCalls == 3
\* largest low life total of a parsed game
MaxParsedLife == 2
\* largest digit from_string is given as active player or phase
MaxParsedDigit == 3
\* calls along one run that makes a copy
MaxCopyCalls == 4
\* calls along one run in which blockers are declared with any argument
MaxTurnCalls == 4
\* pairs in one declare_blockers argument
MaxBlockPairs == 2
\* creatures that may start tapped in the battleground given to the constructor
MaxInitTapped == 1

---------------------------------------------------------------------------
(* TurnPhase (constants.py) *)

\* the phases are the integers that the rendering shows and from_string reads
DeclareAttackers == 0
DeclareBlockers  == 1
CombatStep       == 2
TurnPhase == {DeclareAttackers, DeclareBlockers, CombatStep}

(* The creatures handed to the constructor: uid -> (controller, power,     *)
(* toughness).  Player 0 owns a 4/4 and a 5/4, player 1 a 2/3, a 3/3 and a *)
(* 1/1.                                                                    *)
Uids == 1..5
Players == {0, 1}
controlling_player == <<0, 0, 1, 1, 1>>
power              == <<4, 5, 2, 3, 1>>
toughness          == <<4, 4, 3, 3, 1>>

(* CreatureState: the mutable part of a creature.  Its combat role is one  *)
(* of none, attacking, blocking(attacker uid): attacking and blocking are  *)
(* never set together, and blocking = NoBlock means "blocks nothing".      *)
NoBlock == 0
CreatureState == [tapped : BOOLEAN, attacking : BOOLEAN, blocking : {NoBlock} \cup Uids]
FreshCreature(t) == [tapped |-> t, attacking |-> FALSE, blocking |-> NoBlock]

---------------------------------------------------------------------------
(* Creature mutators (creature_state.py) *)

tap(c)    == [c EXCEPT !.tapped = TRUE]
untap_creature(c) == [c EXCEPT !.tapped = FALSE]
attack(c) == [c EXCEPT !.attacking = TRUE, !.blocking = NoBlock]
block(c, blocked_uid) == [c EXCEPT !.attacking = FALSE, !.blocking = blocked_uid]
remove_from_combat(c) == [c EXCEPT !.attacking = FALSE, !.blocking = NoBlock]

(* BattlegroundState (battleground_state.py) *)

\* battleground[uid] succeeds iff the creature is in play
in_play(bg, uid) == uid \in DOMAIN bg
get_creatures(bg, player) == {u \in DOMAIN bg : controlling_player[u] = player}
remove_creature(bg, uid) == [u \in (DOMAIN bg) \ {uid} |-> bg[u]]

---------------------------------------------------------------------------
(* Derived properties of GameState *)

attacking_player == active_player
defending_player == 1 - active_player
\* (variant) the attacking player is always the one to act
next_to_act_is_attacker == attacking_player
next_to_act == IF phase = DeclareBlockers THEN defending_player ELSE attacking_player
is_over == life1 <= 0 \/ life2 <= 0

\* GameState.outcome: the error it raises, or the Outcome it returns
outcome ==
    IF ~is_over THEN "NotOver"
    ELSE IF life1 <= 0 /\ life2 <= 0 THEN "Draw"
    ELSE LET dead == IF life1 <= 0 THEN 0 ELSE 1
         IN  IF dead = next_to_act THEN "Loss" ELSE "Win"

\* (variant) an untap that untaps nothing
untap_nothing(bg, p) == bg

\* (variant) an untap that untaps the creatures of both players
untap_everyone(bg, p) == [u \in DOMAIN bg |-> untap_creature(bg[u])]

\* GameState.untap applied to battleground bg for player p
untap(bg, p) ==
    [u \in DOMAIN bg |-> IF u \in get_creatures(bg, p) THEN untap_creature(bg[u]) ELSE bg[u]]

---------------------------------------------------------------------------
(* Two instances.  The variables life1 .. battleground are the instance    *)
(* the caller operates on; held is the other instance of a copy() call.    *)
(* An instance refers to a battleground object: shares tells whether the   *)
(* held instance refers to the very object the operated instance mutates.  *)

\* (variant) a copy that hands the same battleground object to the new instance
battleground_alias(bg) == [battleground |-> bg, shares |-> TRUE]

\* BattlegroundState.copy: a new battleground object with copies of the creatures
battleground_copy(bg) == [battleground |-> bg, shares |-> FALSE]

\* GameState(battleground) followed by the four scalar assignments of copy()
copy_result ==
    LET b == battleground_copy(battleground)
    IN  [made |-> TRUE, life1 |-> life1, life2 |-> life2,
         active_player |-> active_player, phase |-> phase,
         battleground |-> b.battleground, shares |-> b.shares]

\* no second instance yet
NoCopy ==
    [made |-> FALSE, life1 |-> 20, life2 |-> 20, active_player |-> 0,
     phase |-> DeclareAttackers, battleground |-> << >>, shares |-> FALSE]

\* BattlegroundState.normalize: the creatures as a set of hashable tuples
battleground_normalize(bg) ==
    {<<u, controlling_player[u], power[u], toughness[u],
       bg[u].tapped, bg[u].attacking, bg[u].blocking>> : u \in DOMAIN bg}

\* GameState.normalize of an instance with the given fields
normalize(l1, l2, ap, ph, bg) == <<<<l1, l2, ap, ph>>, battleground_normalize(bg)>>

\* the battleground object the held instance refers to, as it is now
held_battleground == IF held.shares THEN battleground ELSE held.battleground

normalize_operated == normalize(life1, life2, active_player, phase, battleground)
normalize_held ==
    normalize(held.life1, held.life2, held.active_player, held.phase, held_battleground)

---------------------------------------------------------------------------
Init ==
    /\ life1 = 20
    /\ life2 = 20
    /\ active_player = 0
    /\ phase = DeclareAttackers
    /\ \E T \in SUBSET Uids :
          /\ Cardinality(T) <= MaxInitTapped
          /\ battleground = [u \in Uids |-> FreshCreature(u \in T)]
    /\ op = "init"
    /\ err = "ok"
    /\ arg_attackers = {}
    /\ arg_blocking = <<>>
    /\ arg_given = FALSE
    /\ arg_combat = <<>>
    /\ calls = 0
    /\ held = NoCopy

\* what a call records; the arguments of the other operations are reset
Record(o, e, a, b, g, c) ==
    /\ op' = o
    /\ err' = e
    /\ arg_attackers' = a
    /\ arg_blocking' = b
    /\ arg_given' = g
    /\ arg_combat' = c
    /\ held' = held

\* a call that raised before mutating anything
Raise(o, e, a, b, g, c) ==
    /\ Record(o, e, a, b, g, c)
    /\ UNCHANGED <<game, calls>>

\* (variant) a phase check that never raises
expect_step_never_raises(expected_phase_or_step) == TRUE

\* _expect_step: passes iff the operation is called in its phase
expect_step(expected_phase_or_step) == phase = expected_phase_or_step

---------------------------------------------------------------------------
(* end_turn *)

\* (variant) a turn end that forgets to pass the turn
EndTurnEffect_same_player(bg) ==
    /\ active_player' = active_player
    /\ phase' = DeclareAttackers
    /\ battleground' = [u \in DOMAIN bg |->
                           IF controlling_player[u] = active_player
                           THEN untap_creature(bg[u]) ELSE bg[u]]

EndTurnEffect(bg) ==
    /\ active_player' = 1 - active_player
    /\ phase' = DeclareAttackers
    /\ battleground' = untap(bg, 1 - active_player)

end_turn ==
    /\ EndTurnEffect(battleground)
    /\ UNCHANGED <<life1, life2>>
    /\ calls' = calls + 1
    /\ Record("end_turn", "ok", {}, <<>>, FALSE, <<>>)

\* GameState.untap called by the driver: in any phase, it untaps the
\* creatures of the active player and changes nothing else
call_untap ==
    /\ battleground' = untap(battleground, active_player)
    /\ UNCHANGED <<life1, life2, active_player, phase>>
    /\ calls' = calls + 1
    /\ Record("untap", "ok", {}, <<>>, FALSE, <<>>)

---------------------------------------------------------------------------
(* declare_attackers *)

\* the ids of the argument that battleground[uid] cannot find
unknown_attackers(ids) == {uid \in ids : ~in_play(battleground, uid)}

\* (variant) the check without the test for tapped creatures
attack_allowed_ignores_tapped(uid) ==
    controlling_player[uid] = attacking_player

\* the check is_valid_attack makes on one creature in play
attack_allowed(uid) ==
    /\ ~battleground[uid].tapped
    /\ controlling_player[uid] = attacking_player

is_valid_attack(ids) == \A uid \in ids : in_play(battleground, uid) => attack_allowed(uid)

(* The results the validation loop can have.  It walks the argument in the *)
(* argument's own iteration order, raising at the first uid not in play    *)
(* and returning False at the first creature that may not attack, so with  *)
(* both kinds in one argument either can come first.                       *)
attack_results(ids) ==
    IF unknown_attackers(ids) = {} /\ is_valid_attack(ids)
    THEN {"ok"}
    ELSE (IF unknown_attackers(ids) # {} THEN {"UnknownCreature"} ELSE {})
         \cup (IF ~is_valid_attack(ids) THEN {"InvalidAttack"} ELSE {})

\* (variant) attackers that are marked but not tapped
mark_attackers_no_tap(bg, ids) ==
    [u \in DOMAIN bg |-> IF u \in ids THEN attack(bg[u]) ELSE bg[u]]

mark_attackers(bg, ids) ==
    [u \in DOMAIN bg |-> IF u \in ids THEN tap(attack(bg[u])) ELSE bg[u]]

declare_attackers(ids) ==
    IF ~expect_step(DeclareAttackers)
    THEN Raise("declare_attackers", "InvalidPhase", ids, <<>>, FALSE, <<>>)
    ELSE \E r \in attack_results(ids) :
            IF r # "ok"
            THEN Raise("declare_attackers", r, ids, <<>>, FALSE, <<>>)
            ELSE /\ calls' = calls + 1
                 /\ Record("declare_attackers", "ok", ids, <<>>, FALSE, <<>>)
                 /\ UNCHANGED <<life1, life2>>
                 /\ IF ids # {}
                    THEN /\ battleground' = mark_attackers(battleground, ids)
                         /\ phase' = DeclareBlockers
                         /\ UNCHANGED active_player
                    ELSE EndTurnEffect(battleground)

---------------------------------------------------------------------------
(* declare_blockers *)

\* the pairs of the argument one of whose ids battleground[uid] cannot find
unknown_pairs(f) ==
    {b \in DOMAIN f : ~in_play(battleground, b) \/ ~in_play(battleground, f[b])}

\* (variant) the checks without the test that the blocked creature attacks
block_allowed_any_target(blocker_uid, blocked_uid) ==
    /\ ~battleground[blocker_uid].tapped
    /\ controlling_player[blocker_uid] = defending_player

\* the checks is_valid_block makes on one pair of creatures in play
block_allowed(blocker_uid, blocked_uid) ==
    /\ ~battleground[blocker_uid].tapped
    /\ controlling_player[blocker_uid] = defending_player
    /\ battleground[blocked_uid].attacking

is_valid_block(f) ==
    \A b \in (DOMAIN f) \ unknown_pairs(f) : block_allowed(b, f[b])

\* as attack_results: the loop stops at the first pair that raises or fails
block_results(f) ==
    IF unknown_pairs(f) = {} /\ is_valid_block(f)
    THEN {"ok"}
    ELSE (IF unknown_pairs(f) # {} THEN {"UnknownCreature"} ELSE {})
         \cup (IF ~is_valid_block(f) THEN {"InvalidBlock"} ELSE {})

mark_blockers(bg, f) ==
    [u \in DOMAIN bg |-> IF u \in DOMAIN f THEN block(bg[u], f[u]) ELSE bg[u]]

declare_blockers(f) ==
    IF ~expect_step(DeclareBlockers)
    THEN Raise("declare_blockers", "InvalidPhase", {}, f, FALSE, <<>>)
    ELSE \E r \in block_results(f) :
            IF r # "ok"
            THEN Raise("declare_blockers", r, {}, f, FALSE, <<>>)
            ELSE /\ calls' = calls + 1
                 /\ Record("declare_blockers", "ok", {}, f, FALSE, <<>>)
                 /\ battleground' = mark_blockers(battleground, f)
                 /\ phase' = CombatStep
                 /\ UNCHANGED <<life1, life2, active_player>>

\* the arguments tried: every map of at most n pairs (None is the empty map)
BlockArgs(n) ==
    UNION {[D -> Uids] : D \in {X \in SUBSET Uids : Cardinality(X) <= n}}

---------------------------------------------------------------------------
(* CombatAssignment (combat_assignment.py): an ordered mapping             *)
(* attacker uid -> ordered blocker uids, here a sequence of pairs          *)
(* <<attacker, blockers>> in iteration order.                              *)

Range(s) == {s[i] : i \in DOMAIN s}
Perms(S) == {s \in [1..Cardinality(S) -> S] : \A i, j \in DOMAIN s : s[i] = s[j] => i = j}
Keys(ca) == {ca[i][1] : i \in DOMAIN ca}
NoRepeats(s) == \A i, j \in DOMAIN s : s[i] = s[j] => i = j

\* BattlegroundState.get_combat_assignment, up to order: attacker -> set of its blockers
get_combat_assignment(bg) ==
    [a \in {u \in DOMAIN bg : bg[u].attacking} |-> {u \in DOMAIN bg : bg[u].blocking = a}]

\* CombatAssignment.is_reorder_of: same attackers, same blockers for each
is_reorder_of(ca, cur) ==
    /\ Keys(ca) = DOMAIN cur
    /\ \A i, j \in DOMAIN ca : ca[i][1] = ca[j][1] => i = j
    /\ \A i \in DOMAIN ca : NoRepeats(ca[i][2]) /\ Range(ca[i][2]) = cur[ca[i][1]]

\* every ordering of the derived assignment
Reorders(cur) ==
    LET lists == {f \in [DOMAIN cur -> UNION {Perms(cur[a]) : a \in DOMAIN cur}] :
                     \A a \in DOMAIN cur : f[a] \in Perms(cur[a])}
    IN  {[i \in 1..Cardinality(DOMAIN cur) |-> <<k[i], f[k[i]]>>] :
            k \in Perms(DOMAIN cur), f \in lists}

---------------------------------------------------------------------------
(* resolve_combat *)

RECURSIVE SumPower(_)
SumPower(uids) ==
    IF uids = <<>> THEN 0 ELSE power[Head(uids)] + SumPower(Tail(uids))

\* (variant) a walk that skips a blocker it cannot kill instead of stopping
RECURSIVE lethally_damaged_skips(_, _)
lethally_damaged_skips(attacking_damage, blocker_uids) ==
    IF blocker_uids = <<>> THEN {}
    ELSE IF attacking_damage >= toughness[Head(blocker_uids)]
         THEN {Head(blocker_uids)}
              \cup lethally_damaged_skips(attacking_damage - toughness[Head(blocker_uids)],
                                          Tail(blocker_uids))
         ELSE lethally_damaged_skips(attacking_damage, Tail(blocker_uids))

\* the blockers the ordered walk of _resolve_blocked_attacker removes
RECURSIVE lethally_damaged(_, _)
lethally_damaged(attacking_damage, blocker_uids) ==
    IF blocker_uids = <<>> THEN {}
    ELSE IF attacking_damage >= toughness[Head(blocker_uids)]
         THEN {Head(blocker_uids)}
              \cup lethally_damaged(attacking_damage - toughness[Head(blocker_uids)],
                                    Tail(blocker_uids))
         ELSE {}

\* (variant) blockers that damage the attacker one by one, not as a pool
attacker_destroyed_by_one(attacker_uid, blocker_uids) ==
    \E i \in DOMAIN blocker_uids : power[blocker_uids[i]] >= toughness[attacker_uid]

attacker_destroyed(attacker_uid, blocker_uids) ==
    SumPower(blocker_uids) >= toughness[attacker_uid]

clear_roles(bg, uids) ==
    [u \in DOMAIN bg |-> IF u \in uids THEN remove_from_combat(bg[u]) ELSE bg[u]]

remove_all(bg, uids) == [u \in (DOMAIN bg) \ uids |-> bg[u]]

\* (variant) an unblocked attacker that deals its damage twice
resolve_unblocked_attacker_twice(st, attacker_uid) ==
    IF ~in_play(st.bg, attacker_uid)
    THEN [st EXCEPT !.err = "UnknownCreature"]
    ELSE [st EXCEPT
            !.l1 = IF defending_player = 0 THEN @ - 2 * power[attacker_uid] ELSE @,
            !.l2 = IF defending_player = 0 THEN @ ELSE @ - 2 * power[attacker_uid],
            !.bg = clear_roles(@, {attacker_uid})]

\* (variant) an unblocked attacker that stays flagged attacking
resolve_unblocked_attacker_keeps_role(st, attacker_uid) ==
    IF ~in_play(st.bg, attacker_uid)
    THEN [st EXCEPT !.err = "UnknownCreature"]
    ELSE [st EXCEPT
            !.l1 = IF defending_player = 0 THEN @ - power[attacker_uid] ELSE @,
            !.l2 = IF defending_player = 0 THEN @ ELSE @ - power[attacker_uid]]

\* (variant) an unblocked attacker that damages its own controller
resolve_unblocked_attacker_hits_attacker(st, attacker_uid) ==
    IF ~in_play(st.bg, attacker_uid)
    THEN [st EXCEPT !.err = "UnknownCreature"]
    ELSE [st EXCEPT
            !.l1 = IF attacking_player = 0 THEN @ - power[attacker_uid] ELSE @,
            !.l2 = IF attacking_player = 0 THEN @ ELSE @ - power[attacker_uid],
            !.bg = clear_roles(@, {attacker_uid})]

(* The resolution works on st = [bg, l1, l2, err]; a lookup or a removal   *)
(* of a creature that is not in play raises and leaves what was done so    *)
(* far in place.                                                           *)
resolve_unblocked_attacker(st, attacker_uid) ==
    IF ~in_play(st.bg, attacker_uid)
    THEN [st EXCEPT !.err = "UnknownCreature"]
    ELSE [st EXCEPT
            !.l1 = IF defending_player = 0 THEN @ - power[attacker_uid] ELSE @,
            !.l2 = IF defending_player = 0 THEN @ ELSE @ - power[attacker_uid],
            !.bg = clear_roles(@, {attacker_uid})]

\* (variant) a blocked attacker that destroys every one of its blockers
resolve_blocked_attacker_kills_all(st, attacker_uid, blocker_uids) ==
    IF ~in_play(st.bg, attacker_uid) \/ \E u \in Range(blocker_uids) : ~in_play(st.bg, u)
    THEN [st EXCEPT !.err = "UnknownCreature"]
    ELSE LET bg1 == remove_all(st.bg, Range(blocker_uids))
         IN  IF attacker_destroyed(attacker_uid, blocker_uids)
             THEN [st EXCEPT !.bg = remove_creature(bg1, attacker_uid)]
             ELSE [st EXCEPT !.bg = clear_roles(bg1, {attacker_uid})]

resolve_blocked_attacker(st, attacker_uid, blocker_uids) ==
    IF ~in_play(st.bg, attacker_uid) \/ \E u \in Range(blocker_uids) : ~in_play(st.bg, u)
    THEN [st EXCEPT !.err = "UnknownCreature"]
    ELSE LET dead == lethally_damaged(power[attacker_uid], blocker_uids)
             bg1  == remove_all(st.bg, dead)
         IN  IF attacker_destroyed(attacker_uid, blocker_uids)
             THEN IF in_play(bg1, attacker_uid)
                  THEN [st EXCEPT !.bg = clear_roles(remove_creature(bg1, attacker_uid),
                                                     Range(blocker_uids))]
                  ELSE [st EXCEPT !.bg = bg1, !.err = "UnknownCreature"]
             ELSE [st EXCEPT !.bg = clear_roles(bg1, {attacker_uid} \cup Range(blocker_uids))]

\* (variant) a resolution that stops after the first blocked attacker
RECURSIVE resolve_items_stops_after_block(_, _)
resolve_items_stops_after_block(st, ca) ==
    IF ca = <<>> \/ st.err # "ok" THEN st
    ELSE LET attacker_uid == Head(ca)[1]
             blocker_uids == Head(ca)[2]
         IN  IF blocker_uids # <<>>
             THEN resolve_blocked_attacker(st, attacker_uid, blocker_uids)
             ELSE resolve_items_stops_after_block(
                      resolve_unblocked_attacker(st, attacker_uid), Tail(ca))

RECURSIVE resolve_items(_, _)
resolve_items(st, ca) ==
    IF ca = <<>> \/ st.err # "ok" THEN st
    ELSE LET attacker_uid == Head(ca)[1]
             blocker_uids == Head(ca)[2]
         IN  resolve_items(IF blocker_uids # <<>>
                           THEN resolve_blocked_attacker(st, attacker_uid, blocker_uids)
                           ELSE resolve_unblocked_attacker(st, attacker_uid),
                           Tail(ca))

\* (variant) an argument that is never checked
combat_assignment_accepted_always(given, ca) == TRUE

\* the test resolve_combat makes on its argument: None is replaced by the
\* current assignment, anything else must be a reordering of it
combat_assignment_accepted(given, ca) ==
    IF ~given THEN TRUE ELSE is_reorder_of(ca, get_combat_assignment(battleground))

resolve_combat(given, ca) ==
    IF ~expect_step(CombatStep)
    THEN Raise("resolve_combat", "InvalidPhase", {}, <<>>, given, ca)
    ELSE IF ~combat_assignment_accepted(given, ca)
    THEN Raise("resolve_combat", "InvalidCombatAssignment", {}, <<>>, given, ca)
    ELSE LET st == resolve_items([bg |-> battleground, l1 |-> life1, l2 |-> life2,
                                  err |-> "ok"], ca)
         IN  /\ calls' = calls + 1
             /\ Record("resolve_combat", st.err, {}, <<>>, given, ca)
             /\ life1' = st.l1
             /\ life2' = st.l2
             /\ IF st.err = "ok"
                THEN EndTurnEffect(st.bg)
                ELSE /\ battleground' = st.bg
                     /\ UNCHANGED <<phase, active_player>>

(* The assignments tried as explicit argument: every reordering of the     *)
(* derived assignment, and each of them with one attacker dropped, one     *)
(* attacker added, one blocker dropped or one blocker added.               *)
DropItem(ca) == {SubSeq(ca, 1, i - 1) \o SubSeq(ca, i + 1, Len(ca)) : i \in DOMAIN ca}
AddItem(ca) == {Append(ca, <<u, <<>>>>) : u \in Uids \ Keys(ca)}
DropBlocker(ca) ==
    {[ca EXCEPT ![i] = <<ca[i][1], SubSeq(ca[i][2], 1, Len(ca[i][2]) - 1)>>] :
        i \in {j \in DOMAIN ca : ca[j][2] # <<>>}}
AddBlocker(ca) ==
    UNION {{[ca EXCEPT ![i] = <<ca[i][1], Append(ca[i][2], u)>>] :
               u \in Uids \ Range(ca[i][2])} : i \in DOMAIN ca}
CombatArgs(cur) ==
    Reorders(cur) \cup
    UNION {DropItem(ca) \cup AddItem(ca) \cup DropBlocker(ca) \cup AddBlocker(ca) :
              ca \in Reorders(cur)}

---------------------------------------------------------------------------
(* The caller.  An error raised by an operation propagates to the caller   *)
(* and ends the run; until then the caller makes calls, at most n of which *)
(* are carried out.                                                        *)
Running(n) == err = "ok" /\ calls <= n
Within(n) == calls' <= n

AttackArgs == SUBSET Uids
CurrentAssignment == get_combat_assignment(battleground)

\* any argument, accepted or not
Next ==
    \/ Running(MaxCalls) /\ (\E ids \in AttackArgs : declare_attackers(ids)) /\ Within(MaxCalls)
    \/ Running(MaxCalls) /\ (\E f \in BlockArgs(MaxBlockPairs) : declare_blockers(f)) /\ Within(MaxCalls)
    \/ Running(MaxCalls) /\ (\E ca \in CombatArgs(CurrentAssignment) : resolve_combat(TRUE, ca)) /\ Within(MaxCalls)
    \/ Running(MaxCalls) /\ (\E ca \in Reorders(CurrentAssignment) : resolve_combat(FALSE, ca)) /\ Within(MaxCalls)
    \/ Running(MaxCalls) /\ end_turn /\ Within(MaxCalls)
    \/ Running(MaxCalls) /\ call_untap /\ Within(MaxCalls)

Spec == Init /\ [][Next]_vars

\* only calls in their phase with arguments that pass validation
LegalAttackArgs ==
    IF phase = DeclareAttackers
    THEN {ids \in AttackArgs : attack_results(ids) = {"ok"}}
    ELSE {}
LegalBlockArgs ==
    IF phase = DeclareBlockers
    THEN LET blockers == {b \in DOMAIN battleground :
                             \E t \in DOMAIN battleground : block_allowed(b, t)}
             blocked  == {t \in DOMAIN battleground : battleground[t].attacking}
         IN  {f \in UNION {[D -> blocked] : D \in SUBSET blockers} :
                 block_results(f) = {"ok"}}
    ELSE {}
LegalCombatArgs ==
    IF phase = CombatStep THEN Reorders(CurrentAssignment) ELSE {}

NextLegal ==
    \/ Running(MaxLegalCalls) /\ (\E ids \in LegalAttackArgs : declare_attackers(ids)) /\ Within(MaxLegalCalls)
    \/ Running(MaxLegalCalls) /\ (\E f \in LegalBlockArgs : declare_blockers(f)) /\ Within(MaxLegalCalls)
    \/ Running(MaxLegalCalls) /\ (\E ca \in LegalCombatArgs : resolve_combat(TRUE, ca)) /\ Within(MaxLegalCalls)
    \/ Running(MaxLegalCalls) /\ (\E ca \in LegalCombatArgs : resolve_combat(FALSE, ca)) /\ Within(MaxLegalCalls)
    \/ Running(MaxLegalCalls) /\ end_turn /\ Within(MaxLegalCalls)
    \/ Running(MaxLegalCalls) /\ call_untap /\ Within(MaxLegalCalls)

SpecLegal == Init /\ [][NextLegal]_vars

\* GameState.from_string: any life totals; the active player and the phase
\* are int() of any one digit, with no check that the digit is a player or a
\* TurnPhase; the parsed battleground holds the roster, at most one creature
\* tapped, none in a combat role (the rendering shows power, toughness and
\* the tapped mark only)
ParsedLives == -1 .. MaxParsedLife
ParsedDigits == 0 .. MaxParsedDigit
from_string ==
    /\ life1 \in ParsedLives
    /\ life2 \in ParsedLives
    /\ active_player \in ParsedDigits
    /\ phase \in ParsedDigits
    /\ \E T \in {{}} \cup {{u} : u \in Uids} :
          battleground = [u \in Uids |-> FreshCreature(u \in T)]

InitParsed ==
    /\ from_string
    /\ op = "init"
    /\ err = "ok"
    /\ arg_attackers = {}
    /\ arg_blocking = << >>
    /\ arg_given = FALSE
    /\ arg_combat = << >>
    /\ calls = 0
    /\ held = NoCopy

\* accepted calls on a parsed game
NextParsed ==
    \/ Running(MaxParsedCalls) /\ (\E ids \in LegalAttackArgs : declare_attackers(ids)) /\ Within(MaxParsedCalls)
    \/ Running(MaxParsedCalls) /\ (\E f \in LegalBlockArgs : declare_blockers(f)) /\ Within(MaxParsedCalls)
    \/ Running(MaxParsedCalls) /\ (\E ca \in LegalCombatArgs : resolve_combat(TRUE, ca)) /\ Within(MaxParsedCalls)
    \/ Running(MaxParsedCalls) /\ (\E ca \in LegalCombatArgs : resolve_combat(FALSE, ca)) /\ Within(MaxParsedCalls)
    \/ Running(MaxParsedCalls) /\ end_turn /\ Within(MaxParsedCalls)
    \/ Running(MaxParsedCalls) /\ call_untap /\ Within(MaxParsedCalls)

SpecParsed == InitParsed /\ [][NextParsed]_vars

\* GameState.copy: the caller goes on operating on either of the two
\* instances (they are equal field by field) and holds the other
copy ==
    /\ ~held.made
    /\ held' = copy_result
    /\ op' = "copy"
    /\ err' = "ok"
    /\ arg_attackers' = {}
    /\ arg_blocking' = << >>
    /\ arg_given' = FALSE
    /\ arg_combat' = << >>
    /\ calls' = calls + 1
    /\ UNCHANGED game

\* accepted calls, with one copy() at any point
NextCopy ==
    \/ Running(MaxCopyCalls) /\ (\E ids \in LegalAttackArgs : declare_attackers(ids)) /\ Within(MaxCopyCalls)
    \/ Running(MaxCopyCalls) /\ (\E f \in LegalBlockArgs : declare_blockers(f)) /\ Within(MaxCopyCalls)
    \/ Running(MaxCopyCalls) /\ (\E ca \in LegalCombatArgs : resolve_combat(TRUE, ca)) /\ Within(MaxCopyCalls)
    \/ Running(MaxCopyCalls) /\ (\E ca \in LegalCombatArgs : resolve_combat(FALSE, ca)) /\ Within(MaxCopyCalls)
    \/ Running(MaxCopyCalls) /\ end_turn /\ Within(MaxCopyCalls)
    \/ Running(MaxCopyCalls) /\ call_untap /\ Within(MaxCopyCalls)
    \/ Running(MaxCopyCalls) /\ copy /\ Within(MaxCopyCalls)

SpecCopy == Init /\ [][NextCopy]_vars

\* accepted calls of the three phase operations only: no turn is ended
\* from outside a combat
NextCombat ==
    \/ Running(MaxLegalCalls) /\ (\E ids \in LegalAttackArgs : declare_attackers(ids)) /\ Within(MaxLegalCalls)
    \/ Running(MaxLegalCalls) /\ (\E f \in LegalBlockArgs : declare_blockers(f)) /\ Within(MaxLegalCalls)
    \/ Running(MaxLegalCalls) /\ (\E ca \in LegalCombatArgs : resolve_combat(TRUE, ca)) /\ Within(MaxLegalCalls)
    \/ Running(MaxLegalCalls) /\ (\E ca \in LegalCombatArgs : resolve_combat(FALSE, ca)) /\ Within(MaxLegalCalls)

SpecCombat == Init /\ [][NextCombat]_vars

\* accepted calls, except that in DeclareBlockers the caller may name any
\* creatures as blockers and blocked
NextTurns ==
    \/ Running(MaxTurnCalls) /\ (\E ids \in LegalAttackArgs : declare_attackers(ids)) /\ Within(MaxTurnCalls)
    \/ Running(MaxTurnCalls) /\ phase = DeclareBlockers
          /\ (\E f \in BlockArgs(MaxBlockPairs) : declare_blockers(f)) /\ Within(MaxTurnCalls)
    \/ Running(MaxTurnCalls) /\ (\E ca \in LegalCombatArgs : resolve_combat(TRUE, ca)) /\ Within(MaxTurnCalls)
    \/ Running(MaxTurnCalls) /\ (\E ca \in LegalCombatArgs : resolve_combat(FALSE, ca)) /\ Within(MaxTurnCalls)
    \/ Running(MaxTurnCalls) /\ end_turn /\ Within(MaxTurnCalls)
    \/ Running(MaxTurnCalls) /\ call_untap /\ Within(MaxTurnCalls)

SpecTurns == Init /\ [][NextTurns]_vars
---------------------------------------------------------------------------
(* Properties.  A step of the model is one call; op', err' and arg_*'      *)
(* describe the call that makes the step, the unprimed variables the game  *)
(* it was made on.                                                         *)

Attackers(bg) == {u \in DOMAIN bg : bg[u].attacking}
BlockersOf(bg, a) == {u \in DOMAIN bg : bg[u].blocking = a}

RECURSIVE PowerOf(_)
PowerOf(S) ==
    IF S = {} THEN 0 ELSE LET u == CHOOSE x \in S : TRUE IN power[u] + PowerOf(S \ {u})

\* toughness of the first k blockers of the list
RECURSIVE ToughnessUpTo(_, _)
ToughnessUpTo(bs, k) ==
    IF k = 0 THEN 0 ELSE toughness[bs[k]] + ToughnessUpTo(bs, k - 1)

Unblocked(ca) == {ca[i][1] : i \in {j \in DOMAIN ca : ca[j][2] = <<>>}}

\* C1: declare_attackers, declare_blockers and resolve_combat called outside
\* their phase fail with the phase error and leave lives, active player,
\* phase and every creature as they were.
C1_OutOfPhaseCallFails ==
    [][ /\ (op' = "declare_attackers" /\ phase # DeclareAttackers)
            => (err' = "InvalidPhase" /\ game' = game)
        /\ (op' = "declare_blockers" /\ phase # DeclareBlockers)
            => (err' = "InvalidPhase" /\ game' = game)
        /\ (op' = "resolve_combat" /\ phase # CombatStep)
            => (err' = "InvalidPhase" /\ game' = game) ]_vars

\* resolve_combat was refused while attackers were declared and unresolved
C1_Witness ==
    /\ op = "resolve_combat" /\ err = "InvalidPhase"
    /\ phase = DeclareBlockers /\ Attackers(battleground) # {}

\* C2: (phase, active_player) changes only by DeclareAttackers -> DeclareBlockers
\* or DeclareBlockers -> CombatStep with the same player, or by a move to
\* DeclareAttackers with the player swapped; leaving DeclareBlockers for
\* DeclareAttackers takes an explicit end_turn, and the active player changes
\* only together with a move to DeclareAttackers.
C2_PhaseCycle ==
    [][ /\ (<<phase', active_player'>> # <<phase, active_player>>)
            => \/ /\ phase = DeclareAttackers /\ phase' = DeclareBlockers
                  /\ active_player' = active_player
               \/ /\ phase = DeclareBlockers /\ phase' = CombatStep
                  /\ active_player' = active_player
               \/ /\ phase' = DeclareAttackers
                  /\ active_player' = 1 - active_player
        /\ (phase = DeclareBlockers /\ phase' = DeclareAttackers) => op' = "end_turn"
        /\ (phase = CombatStep /\ phase' = DeclareAttackers)
            => op' \in {"end_turn", "resolve_combat"}
        /\ (active_player' # active_player) => phase' = DeclareAttackers ]_vars

\* a turn ended by end_turn in the middle of combat
C2_Witness ==
    /\ op = "end_turn" /\ phase = DeclareAttackers
    /\ Attackers(battleground) # {}

\* C3: in DeclareAttackers, declare_attackers with creatures of which one is
\* tapped or not the attacking player's fails with the invalid-attack error
\* and changes nothing.
C3_InvalidAttackRejected ==
    [][ ( /\ op' = "declare_attackers" /\ phase = DeclareAttackers
          /\ arg_attackers' \subseteq DOMAIN battleground
          /\ \E u \in arg_attackers' :
                battleground[u].tapped \/ controlling_player[u] # active_player )
        => (err' = "InvalidAttack" /\ game' = game) ]_vars

\* refused for a tapped creature of the attacking player named together with
\* one that could have attacked
C3_Witness ==
    /\ op = "declare_attackers" /\ err = "InvalidAttack" /\ phase = DeclareAttackers
    /\ arg_attackers \subseteq DOMAIN battleground
    /\ \E u, v \in arg_attackers :
          /\ battleground[u].tapped /\ controlling_player[u] = active_player
          /\ ~battleground[v].tapped /\ controlling_player[v] = active_player
          /\ ~battleground[v].attacking

\* C4: in DeclareAttackers, declare_attackers with no ids goes in one step to
\* DeclareAttackers of the other player, leaves both lives alone and leaves
\* every creature of the new active player untapped.
C4_EmptyAttackEndsTurn ==
    [][ (op' = "declare_attackers" /\ phase = DeclareAttackers /\ arg_attackers' = {})
        => /\ err' = "ok"
           /\ phase' = DeclareAttackers
           /\ active_player' = 1 - active_player
           /\ life1' = life1 /\ life2' = life2
           /\ \A u \in DOMAIN battleground' :
                 controlling_player[u] = active_player' => ~battleground'[u].tapped ]_vars

\* player 0 passed and player 1 is to attack with three untapped creatures
C4_Witness ==
    /\ op = "declare_attackers" /\ err = "ok" /\ arg_attackers = {}
    /\ calls = 1 /\ active_player = 1 /\ phase = DeclareAttackers
    /\ \A u \in DOMAIN battleground : controlling_player[u] = 1 => ~battleground[u].tapped

\* C5: in DeclareAttackers, declare_attackers with a non-empty set of untapped
\* creatures of the attacking player makes exactly those attacking and tapped,
\* moves to DeclareBlockers and changes nothing else.
C5_AttackMarksNamedCreatures ==
    [][ ( /\ op' = "declare_attackers" /\ phase = DeclareAttackers
          /\ arg_attackers' # {}
          /\ arg_attackers' \subseteq DOMAIN battleground
          /\ \A u \in arg_attackers' :
                ~battleground[u].tapped /\ controlling_player[u] = active_player )
        => /\ err' = "ok"
           /\ phase' = DeclareBlockers
           /\ active_player' = active_player
           /\ life1' = life1 /\ life2' = life2
           /\ DOMAIN battleground' = DOMAIN battleground
           /\ \A u \in DOMAIN battleground :
                 IF u \in arg_attackers'
                 THEN /\ battleground'[u].attacking
                      /\ battleground'[u].tapped
                 ELSE battleground'[u] = battleground[u] ]_vars

\* two creatures attack, the others are neither attacking nor tapped
C5_Witness ==
    /\ op = "declare_attackers" /\ err = "ok" /\ arg_attackers = {1, 2}
    /\ phase = DeclareBlockers
    /\ \A u \in DOMAIN battleground \ {1, 2} :
          ~battleground[u].attacking /\ ~battleground[u].tapped

\* C6: in DeclareBlockers, declare_blockers with a pair whose blocker is tapped
\* or not the defending player's, or whose target is not attacking, fails with
\* the invalid-block error and changes nothing.
C6_InvalidBlockRejected ==
    [][ ( /\ op' = "declare_blockers" /\ phase = DeclareBlockers
          /\ \A b \in DOMAIN arg_blocking' :
                b \in DOMAIN battleground /\ arg_blocking'[b] \in DOMAIN battleground
          /\ \E b \in DOMAIN arg_blocking' :
                \/ battleground[b].tapped
                \/ controlling_player[b] # 1 - active_player
                \/ ~battleground[arg_blocking'[b]].attacking )
        => (err' = "InvalidBlock" /\ game' = game) ]_vars

\* refused for a pair whose target does not attack, named together with a
\* pair that could have blocked
C6_Witness ==
    /\ op = "declare_blockers" /\ err = "InvalidBlock" /\ phase = DeclareBlockers
    /\ \A b \in DOMAIN arg_blocking :
          b \in DOMAIN battleground /\ arg_blocking[b] \in DOMAIN battleground
    /\ \E b, c \in DOMAIN arg_blocking :
          /\ ~battleground[b].tapped /\ controlling_player[b] = 1 - active_player
          /\ ~battleground[arg_blocking[b]].attacking
          /\ ~battleground[c].tapped /\ controlling_player[c] = 1 - active_player
          /\ battleground[arg_blocking[c]].attacking
          /\ battleground[c].blocking = NoBlock

\* the assignment ca names the attackers of bg once each, each with its blockers
IsReordering(ca, bg) ==
    /\ Keys(ca) = Attackers(bg)
    /\ Len(ca) = Cardinality(Attackers(bg))
    /\ \A i \in DOMAIN ca :
          /\ Range(ca[i][2]) = BlockersOf(bg, ca[i][1])
          /\ Len(ca[i][2]) = Cardinality(BlockersOf(bg, ca[i][1]))

\* C7: in CombatStep, resolve_combat with an explicit assignment that is not a
\* reordering of the one read off the battleground fails with the
\* invalid-assignment error and changes nothing; a reordering is accepted.
C7_ExplicitAssignmentChecked ==
    [][ (op' = "resolve_combat" /\ phase = CombatStep /\ arg_given')
        => IF IsReordering(arg_combat', battleground)
           THEN err' = "ok"
           ELSE err' = "InvalidCombatAssignment" /\ game' = game ]_vars

\* refused for an assignment with the right attackers and a wrong blocker list
C7_Witness ==
    /\ op = "resolve_combat" /\ err = "InvalidCombatAssignment" /\ arg_given
    /\ phase = CombatStep
    /\ Keys(arg_combat) = Attackers(battleground)
    /\ \E i \in DOMAIN arg_combat :
          /\ BlockersOf(battleground, arg_combat[i][1]) # {}
          /\ Range(arg_combat[i][2]) # BlockersOf(battleground, arg_combat[i][1])

\* an explicit assignment that lists two blockers in descending uid order was used
C7_ReorderAccepted ==
    /\ op = "resolve_combat" /\ err = "ok" /\ arg_given
    /\ \E i \in DOMAIN arg_combat :
          Len(arg_combat[i][2]) = 2 /\ arg_combat[i][2][1] > arg_combat[i][2][2]

\* C8: after a successful resolve_combat the defending player has lost exactly
\* the power of the attackers without blocker, the attacking player has lost
\* nothing, and every attacker without blocker is in play, tapped and no
\* longer attacking; from 20/20 with player 0 attacking with the unblocked
\* 4/4 the result is 20/16, player 1 active, DeclareAttackers.
C8_UnblockedDamage ==
    [][ (op' = "resolve_combat" /\ err' = "ok")
        => /\ IF active_player = 0
              THEN /\ life1' = life1
                   /\ life2' = life2 - PowerOf(Unblocked(arg_combat'))
              ELSE /\ life2' = life2
                   /\ life1' = life1 - PowerOf(Unblocked(arg_combat'))
           /\ \A u \in Unblocked(arg_combat') :
                 /\ u \in DOMAIN battleground'
                 /\ battleground'[u].tapped
                 /\ ~battleground'[u].attacking
           /\ ( /\ life1 = 20 /\ life2 = 20 /\ active_player = 0
                /\ arg_combat' = << <<1, <<>>>> >> )
              => ( /\ life1' = 20 /\ life2' = 16
                   /\ active_player' = 1 /\ phase' = DeclareAttackers ) ]_vars

\* C9: of the ordered blockers b1..bn of an attacker with power P, resolve_combat
\* removes exactly the longest prefix b1..bk whose cumulative toughness stays
\* <= P; the first blocker it cannot kill and every later one stay in play.
C9_LethalPrefix ==
    [][ (op' = "resolve_combat" /\ err' = "ok")
        => \A i \in DOMAIN arg_combat' :
              LET a  == arg_combat'[i][1]
                  bs == arg_combat'[i][2]
              IN  \A k \in DOMAIN bs :
                     (bs[k] \notin DOMAIN battleground')
                     <=> (\A j \in 1..k : ToughnessUpTo(bs, j) <= power[a]) ]_vars

\* power 5 against toughness 3, 3, 1 in that order: the first blocker is gone,
\* the second and the third are in play
C9_Witness ==
    /\ op = "resolve_combat" /\ err = "ok"
    /\ arg_combat = << <<2, <<3, 4, 5>>>> >>
    /\ 3 \notin DOMAIN battleground
    /\ 4 \in DOMAIN battleground /\ 5 \in DOMAIN battleground

\* C10: resolve_combat removes a blocked attacker iff the power of all its
\* blockers together, those destroyed in the same resolution included, is >=
\* its toughness, whatever the order of the blockers.
C10_PooledBlockerDamage ==
    [][ (op' = "resolve_combat" /\ err' = "ok")
        => \A i \in DOMAIN arg_combat' :
              LET a  == arg_combat'[i][1]
                  bs == arg_combat'[i][2]
              IN  bs # <<>> =>
                     ( (a \notin DOMAIN battleground')
                       <=> (PowerOf(Range(bs)) >= toughness[a]) ) ]_vars

\* toughness 4 against powers 3, 2 (the 2/3 listed last): the attacker is gone,
\* and so is the first blocker, whose power counted
C10_Witness ==
    /\ op = "resolve_combat" /\ err = "ok"
    /\ arg_combat = << <<2, <<4, 3>>>> >>
    /\ 2 \notin DOMAIN battleground
    /\ 4 \notin DOMAIN battleground
\* C11: a successful resolve_combat ends the turn: the phase is
\* DeclareAttackers, the previous defending player is active, all his
\* creatures are untapped, and every surviving creature of the previous
\* attacking player is tapped or untapped as it was.
C11_ResolveEndsTurn ==
    [][ (op' = "resolve_combat" /\ err' = "ok")
        => /\ phase' = DeclareAttackers
           /\ active_player' = 1 - active_player
           /\ \A u \in DOMAIN battleground' :
                 /\ controlling_player[u] = 1 - active_player
                       => ~battleground'[u].tapped
                 /\ controlling_player[u] = active_player
                       => battleground'[u].tapped = battleground[u].tapped ]_vars

\* player 0's blocked attacker survived the combat and is still tapped while
\* player 1 is to attack
C11_Witness ==
    /\ op = "resolve_combat" /\ err = "ok"
    /\ phase = DeclareAttackers /\ active_player = 1
    /\ \E i \in DOMAIN arg_combat :
          /\ arg_combat[i][1] \in DOMAIN battleground
          /\ controlling_player[arg_combat[i][1]] = 0
          /\ battleground[arg_combat[i][1]].tapped
          /\ arg_combat[i][2] # << >>
\* C12: outcome fails with the not-over error while both lives are positive;
\* it is Draw when both are <= 0; when exactly one player has life <= 0 it
\* is Loss if that player is the one to act (the defender in
\* DeclareBlockers, the active player otherwise) and Win if not.
C12_Outcome ==
    LET toAct == IF phase = DeclareBlockers THEN 1 - active_player ELSE active_player
        life  == <<life1, life2>>
    IN  /\ (life1 > 0 /\ life2 > 0) => outcome = "NotOver"
        /\ (life1 <= 0 /\ life2 <= 0) => outcome = "Draw"
        /\ \A i \in Players :
              (life[i + 1] <= 0 /\ life[2 - i] > 0)
                 => outcome = (IF i = toAct THEN "Loss" ELSE "Win")

\* player 1 has no life left and player 0 has attacked: the dead
\* player is to act in phase DeclareBlockers after his opponent attacked
C12_Witness ==
    /\ phase = DeclareBlockers /\ op = "declare_attackers"
    /\ active_player = 0 /\ life2 <= 0 /\ life1 > 0
    /\ outcome = "Loss"
\* C13: copy() returns a GameState whose normalized form equals the
\* original's, and no operation applied to one of the two instances changes
\* the normalized form of the other.
C13_CopyIsIndependent ==
    [][ /\ (op' = "copy" /\ err' = "ok") => normalize_held' = normalize_operated'
        /\ held.made => normalize_held' = normalize_held ]_vars

\* a whole combat with a destroyed creature was played on one instance
\* after the copy, so the two instances differ in every component
C13_Witness ==
    /\ held.made
    /\ op = "resolve_combat" /\ err = "ok"
    /\ DOMAIN battleground # DOMAIN held.battleground
    /\ <<life1, life2>> # <<held.life1, held.life2>>
    /\ active_player # held.active_player
\* C14: lives change only inside combat resolution: declare_attackers,
\* declare_blockers, end_turn and every failing call leave both lives as they
\* were, and a resolve_combat takes from the defending player the power of
\* each attacker of the turn at most once (of each unblocked one exactly
\* once) and nothing from the attacking player.
C14_LifeOnlyInResolution ==
    [][ /\ (op' # "resolve_combat" \/ err' # "ok")
            => (life1' = life1 /\ life2' = life2)
        /\ (op' = "resolve_combat" /\ err' = "ok")
            => LET before   == <<life1, life2>>
                   after    == <<life1', life2'>>
                   defender == 2 - active_player
                   attacker == active_player + 1
                   lost     == before[defender] - after[defender]
               IN  /\ after[attacker] = before[attacker]
                   /\ lost = PowerOf({arg_combat'[i][1] : i \in
                                 {j \in DOMAIN arg_combat' : Len(arg_combat'[j][2]) = 0}})
                   /\ lost <= PowerOf(Attackers(battleground)) ]_vars

\* both attackers of player 0 went through unblocked: player 1 lost the
\* power of the two, 4 + 5
C14_Witness ==
    /\ op = "resolve_combat" /\ err = "ok"
    /\ Len(arg_combat) = 2
    /\ Cardinality(Unblocked(arg_combat)) = 2
    /\ life1 = 20
    /\ life2 = 20 - PowerOf(Unblocked(arg_combat))
\* C15: from a fresh GameState, through declare_attackers, declare_blockers
\* and resolve_combat only, no creature in play is attacking or blocking
\* whenever the phase is DeclareAttackers, unblocked attackers included.
C15_RolesClearedAtResolution ==
    phase = DeclareAttackers
       => \A u \in DOMAIN battleground :
             ~battleground[u].attacking /\ battleground[u].blocking = NoBlock

\* a combat was resolved in which one attacker was not blocked and another
\* was blocked by a creature that is still in play
C15_Witness ==
    /\ phase = DeclareAttackers
    /\ op = "resolve_combat" /\ err = "ok"
    /\ \E i, j \in DOMAIN arg_combat :
          /\ arg_combat[i][2] = << >>
          /\ arg_combat[i][1] \in DOMAIN battleground
          /\ \E k \in DOMAIN arg_combat[j][2] : arg_combat[j][2][k] \in DOMAIN battleground
\* C16: a tapped creature stays tapped until its controller becomes the
\* active player, and is untapped exactly then; while it is tapped a
\* declare_blockers naming it as a blocker fails with the invalid-block
\* error; so after every turn end the phase is DeclareAttackers, the
\* creatures of the active player are untapped and only creatures of the
\* other player can be tapped.
C16_TappedUntilControllersTurn ==
    [][ /\ \A u \in DOMAIN battleground \cap DOMAIN battleground' :
              LET turn_starts == /\ active_player' = controlling_player[u]
                                 /\ active_player # controlling_player[u]
              IN  /\ (battleground[u].tapped /\ ~turn_starts) => battleground'[u].tapped
                  /\ turn_starts => ~battleground'[u].tapped
        /\ ( /\ op' = "declare_blockers" /\ phase = DeclareBlockers
             /\ \A b \in DOMAIN arg_blocking' :
                   b \in DOMAIN battleground /\ arg_blocking'[b] \in DOMAIN battleground
             /\ \E b \in DOMAIN arg_blocking' : battleground[b].tapped )
           => (err' = "InvalidBlock" /\ game' = game)
        /\ active_player' # active_player
           => /\ phase' = DeclareAttackers
              /\ \A u \in DOMAIN battleground' :
                    battleground'[u].tapped => controlling_player[u] # active_player' ]_vars

\* the assignments ca and other list each attacker with the same ordered blockers
SameBlockerOrder(ca, other) ==
    \A i \in DOMAIN ca : \A j \in DOMAIN other :
        ca[i][1] = other[j][1] => ca[i][2] = other[j][2]

\* C17: the order in which resolve_combat takes the attackers does not
\* matter: with the blocker order of each attacker fixed, every permutation
\* of the attackers gives the same lives, creatures in play, flags, phase
\* and active player as the one that was resolved.
C17_AttackerOrderImmaterial ==
    [][ (op' = "resolve_combat" /\ err' = "ok")
        => \A other \in Reorders(get_combat_assignment(battleground)) :
              SameBlockerOrder(arg_combat', other)
              => LET st == resolve_items([bg |-> battleground, l1 |-> life1,
                                          l2 |-> life2, err |-> "ok"], other)
                 IN  /\ st.err = "ok"
                     /\ life1' = st.l1
                     /\ life2' = st.l2
                     /\ battleground' = untap(st.bg, 1 - active_player)
                     /\ phase' = DeclareAttackers
                     /\ active_player' = 1 - active_player ]_vars

\* three attackers were resolved in the order 5, 4, 3, the first unblocked,
\* the second blocked and destroyed
C17_Witness ==
    /\ op = "resolve_combat" /\ err = "ok"
    /\ Len(arg_combat) = 3
    /\ arg_combat[1][1] = 5 /\ arg_combat[2][1] = 4 /\ arg_combat[3][1] = 3
    /\ arg_combat[1][2] = << >>
    /\ arg_combat[2][2] # << >>
    /\ 4 \notin DOMAIN battleground
\* C18: the set of creatures in play never gains a member and loses members
\* only in a successful resolve_combat; a creature removed there is a
\* blocker within the lethally damaged prefix of its attacker's ordered
\* blockers, or a blocked attacker whose blockers' total power is at least
\* its toughness; attackers without blocker stay in play.
C18_CreaturesOnlyDestroyedInCombat ==
    [][ /\ DOMAIN battleground' \subseteq DOMAIN battleground
        /\ DOMAIN battleground' # DOMAIN battleground
              => (op' = "resolve_combat" /\ err' = "ok")
        /\ (op' = "resolve_combat" /\ err' = "ok")
              => \A u \in (DOMAIN battleground) \ (DOMAIN battleground') :
                    \E i \in DOMAIN arg_combat' :
                       LET a  == arg_combat'[i][1]
                           bs == arg_combat'[i][2]
                       IN  \/ \E k \in DOMAIN bs :
                                 /\ bs[k] = u
                                 /\ ToughnessUpTo(bs, k) <= power[a]
                           \/ /\ a = u
                              /\ bs # << >>
                              /\ PowerOf(Range(bs)) >= toughness[u] ]_vars

\* a combat removed a blocker and the attacker it blocked, and left an
\* attacker without blocker in play
C18_Witness ==
    /\ op = "resolve_combat" /\ err = "ok"
    /\ \E i, j \in DOMAIN arg_combat :
          /\ arg_combat[i][2] = << >>
          /\ arg_combat[i][1] \in DOMAIN battleground
          /\ arg_combat[j][2] # << >>
          /\ arg_combat[j][1] \notin DOMAIN battleground
          /\ arg_combat[j][2][1] \notin DOMAIN battleground
\* C19: a call changes at most the life of the defending player; so the
\* first state with a life <= 0 after a state with both lives positive has
\* exactly one life <= 0, is produced by resolve_combat, and its outcome is
\* Loss: the dead player is the new active player, who is next to act.  A
\* call leads to outcome Draw or Win only from a game that was over already.
C19_FirstOverIsLoss ==
    [][ /\ (active_player = 0 => life1' = life1)
        /\ (active_player = 1 => life2' = life2)
        /\ (life1 > 0 /\ life2 > 0 /\ (life1' <= 0 \/ life2' <= 0))
              => /\ op' = "resolve_combat" /\ err' = "ok"
                 /\ ~(life1' <= 0 /\ life2' <= 0)
                 /\ active_player' = (IF life1' <= 0 THEN 0 ELSE 1)
                 /\ phase' = DeclareAttackers
                 /\ outcome' = "Loss"
        /\ outcome' \in {"Draw", "Win"} => (life1 <= 0 \/ life2 <= 0) ]_vars

\* player 1 had life left when the combat began and has none after it;
\* he is the active player and the outcome is Loss
C19_Witness ==
    /\ op = "resolve_combat" /\ err = "ok"
    /\ life1 > 0 /\ life2 <= 0
    /\ life2 + PowerOf(Unblocked(arg_combat)) > 0
    /\ active_player = 1
    /\ outcome = "Loss"
\* the calls without argument, and whether the game accepts them as it is;
\* resolve_combat() is accepted if the call can succeed and the resolution
\* raises in none of the orders it may take
AcceptsEmptyAttack == ENABLED (declare_attackers({}) /\ err' = "ok")
AcceptsNoBlock == ENABLED (declare_blockers(<< >>) /\ err' = "ok")
AcceptsResolve ==
    /\ ENABLED (\E ca \in Reorders(CurrentAssignment) : resolve_combat(FALSE, ca) /\ err' = "ok")
    /\ \A ca \in Reorders(CurrentAssignment) :
          resolve_items([bg |-> battleground, l1 |-> life1, l2 |-> life2,
                         err |-> "ok"], ca).err = "ok"

\* successful phase operations made in the turn before the phase is reached
OperationsIntoTurn(ph) ==
    CASE ph = DeclareAttackers -> 0
      [] ph = DeclareBlockers -> 1
      [] ph = CombatStep -> 2
      [] OTHER -> 0

\* C20: the phase machine is never stuck and a turn takes 1 or 3 phase
\* operations: in every state, over or not, exactly the one of
\* declare_attackers([]), declare_blockers() and resolve_combat() that
\* belongs to the phase is accepted, and a successful phase operation either
\* is one more operation into the same turn or returns to DeclareAttackers
\* with the player swapped as the 1st (empty attack) or the 3rd (resolve)
\* operation of the turn.
C20_NeverStuck ==
    /\ [](/\ AcceptsEmptyAttack \/ AcceptsNoBlock \/ AcceptsResolve
          /\ AcceptsEmptyAttack <=> phase = DeclareAttackers
          /\ AcceptsNoBlock <=> phase = DeclareBlockers
          /\ AcceptsResolve <=> phase = CombatStep)
    /\ [][ ( /\ op' \in {"declare_attackers", "declare_blockers", "resolve_combat"}
             /\ err' = "ok" )
           => IF active_player' # active_player
              THEN /\ phase' = DeclareAttackers
                   /\ \/ /\ OperationsIntoTurn(phase) + 1 = 1
                         /\ op' = "declare_attackers" /\ arg_attackers' = {}
                      \/ /\ OperationsIntoTurn(phase) + 1 = 3
                         /\ op' = "resolve_combat"
              ELSE /\ OperationsIntoTurn(phase') = OperationsIntoTurn(phase) + 1
                   /\ OperationsIntoTurn(phase') < 3 ]_vars
====
